---- MODULE Spec2Model ----
(***************************************************************************)
(* Interaction controller of the Bangboo desktop robot (App component):    *)
(* power, capture, AI exchange and playback handlers, with every pending   *)
(* callback (microphone request, recorder stop event, exchange promise,    *)
(* audio decode, source ended event, boot timer) as a separate step.       *)
(*                                                                         *)
(* screenMode and expression are not modelled: navigation between the     *)
(* screens is free while powerStatus is ON, so the power-off button (menu) *)
(* and the microphone button (chat screen) are reachable whenever the      *)
(* robot is ON, and neither value is read by the handlers below.           *)
(* A handler reads the state of the latest render, which is the current    *)
(* state: React re-renders between two events.                             *)
(*                                                                         *)
(* Recorder states: unused, recording, stopping (stop() called, the stop   *)
(* event and its onstop handler pending), inactive.                        *)
(* Source states: unused, playing, stopped (stop() called, the ended event *)
(* pending), ended (onended has run).                                      *)
(***************************************************************************)
EXTENDS Integers, Sequences, FiniteSets, TLC

\* ---- bounds ------------------------------------------------------------
\* interactions (startRecording or sendText calls) the user may begin in one
\* behaviour; each begins at most one recorder, one exchange and one source
MaxInteractions == 2

\* bytes of a decoded audio payload
MaxPayloadLen == 4

\* file selections handed to the music player's upload input
MaxUploads == 2

RecorderIds == 1..MaxInteractions
TurnIds == 1..MaxInteractions

VARIABLES
    powerStatus,        \* 'OFF' | 'BOOTING' | 'ON'
    mode,               \* RobotMode
    isRecording,        \* recording flag
    chatHistory,        \* ChatMessage[], each entry tagged with its turn
    audioContextRef,    \* TRUE when audioContextRef/gainNodeRef are set
    mediaRecorderRef,   \* 0 (null) or the id of the current MediaRecorder
    audioSourceRef,     \* 0 (null) or the id of the current source node
    recorders,          \* MediaRecorder objects: state of each
    sources,            \* AudioBufferSourceNode objects: state of each
    bootTimer,          \* TRUE while the boot setTimeout is pending
    micPending,         \* number of unsettled getUserMedia promises
    pendingExchange,    \* turns whose generateRobotResponse is unsettled
    pendingDecode,      \* turns whose decodeAudioData is unsettled
    interactions,       \* startRecording and sendText calls issued so far
    lastEvent,          \* history: the step taken last
    interrupted,        \* history: pending turns interrupted since they were issued
    scen                \* history: progress along one of the documented scenarios

\* one call of decodeAudioData(base64Data, ctx) of audioUtils
VARIABLES
    base64Data,         \* the argument: characters of a base64 string
    ctxSampleRate,      \* ctx.sampleRate of the AudioContext argument
    container,          \* what ctx.decodeAudioData makes of the bytes:
                        \* "none" (rejects) or the container's header
    bytes,              \* the Uint8Array filled from atob's result
    decodePc,           \* position in the call
    containerError,     \* e of the outer catch
    fallbackError,      \* err of the inner catch
    buffer,             \* the AudioBuffer the promise resolves with
    thrown              \* the error the promise rejects with

\* the music player of RobotFace
VARIABLES
    playlist,           \* MusicTrack[]
    currentTrack,       \* MusicTrack, or Undefined
    isPlaying,          \* play/pause flag
    uploads             \* file selections handled so far

controllerVars == <<powerStatus, mode, isRecording, chatHistory, audioContextRef,
                    mediaRecorderRef, audioSourceRef, recorders, sources, bootTimer,
                    micPending, pendingExchange, pendingDecode, interactions,
                    lastEvent, interrupted, scen>>

decoderVars == <<base64Data, ctxSampleRate, container, bytes, decodePc,
                 containerError, fallbackError, buffer, thrown>>

musicVars == <<playlist, currentTrack, isPlaying, uploads>>

vars == <<controllerVars, decoderVars, musicVars>>

\* ---- helpers -----------------------------------------------------------
UserEntries(h) == {i \in 1..Len(h) : h[i].role = "user"}

\* every handleAIInteraction call appends one user entry: its turn number
NextTurn == Cardinality(UserEntries(chatHistory)) + 1

NextRecorder == Cardinality({r \in RecorderIds : recorders[r] # "unused"}) + 1

CaptureLive == {r \in RecorderIds : recorders[r] = "recording"}
PlaybackLive == {s \in TurnIds : sources[s] = "playing"}

\* stopAudioPlayback: stop() the referenced source (a no-op on a source that
\* already ended or was stopped); the caller sets audioSourceRef to null
StopAudioPlaybackNoStop(srcs, ref) == srcs

StopAudioPlayback(srcs, ref) ==
    IF ref # 0 /\ srcs[ref] = "playing"
    THEN [srcs EXCEPT ![ref] = "stopped"]
    ELSE srcs

\* stream.getTracks().forEach(track => track.stop()) on the referenced
\* recorder: a recorder whose tracks have all ended goes inactive; its stop
\* event finds no onstop handler unless stopRecording installed one
StopTracks(recs, ref) ==
    IF ref # 0 /\ recs[ref] = "recording"
    THEN [recs EXCEPT ![ref] = "inactive"]
    ELSE recs

\* handleAIInteraction after its await: the entry appended for result.text
ModelEntry(e, outcome) ==
    [role |-> "model", turn |-> e,
     text |-> IF outcome = "error" THEN "error" ELSE "reply"]

\* handleAIInteraction after its await: the mode when result.audioBase64 is
\* present (left to playAudioResponse) or absent
ModeAfterExchangeKept(outcome, m) == m

ModeAfterExchange(outcome, m) == IF outcome = "audio" THEN m ELSE "IDLE"

\* handleAIInteraction hands result.audioBase64 to playAudioResponse, which
\* returns at once when the audio context or gain node is missing
StartsDecodeAlways(outcome, ctx) == ctx

StartsDecode(outcome, ctx) == outcome = "audio" /\ ctx

\* handleAIInteraction up to its await, with the mode left as it was
HandleAIInteractionKeepMode(text) ==
    /\ mode' = mode
    /\ chatHistory' = Append(chatHistory,
                             [role |-> "user", turn |-> NextTurn, text |-> text])
    /\ pendingExchange' = pendingExchange \cup {NextTurn}

\* handleAIInteraction up to its await
HandleAIInteraction(text) ==
    /\ mode' = "THINKING"
    /\ chatHistory' = Append(chatHistory,
                             [role |-> "user", turn |-> NextTurn, text |-> text])
    /\ pendingExchange' = pendingExchange \cup {NextTurn}

\* ---- history --------------------------------------------------------
\* lastEvent, interrupted and scen record what happened; no step reads them
Ev(op) == [op |-> op, turn |-> 0, outcome |-> "", stale |-> FALSE]

EvName(ev) == IF ev.op = "ExchangeResolved" THEN <<ev.op, ev.outcome>> ELSE <<ev.op>>

NoScen == [run |-> <<>>, modes |-> <<>>, base |-> 0, played |-> 0]

SourcesUsed == Cardinality({s \in TurnIds : sources[s] # "unused"})

\* nothing in flight: no callback pending, no recorder or source live
Settled ==
    /\ ~bootTimer
    /\ micPending = 0
    /\ pendingExchange = {}
    /\ pendingDecode = {}
    /\ \A r \in RecorderIds : recorders[r] \in {"unused", "inactive"}
    /\ \A s \in TurnIds : sources[s] \in {"unused", "ended"}

\* the resting state every scenario of the specification starts from
Quiescent ==
    /\ powerStatus = "ON"
    /\ mode = "IDLE"
    /\ ~isRecording
    /\ Settled

IsPrefix(p, q) == Len(p) <= Len(q) /\ SubSeq(q, 1, Len(p)) = p

\* capture, stop, exchange resolving with text and decodable audio
VoicePath == << <<"StartRecording">>, <<"MicGranted">>, <<"StopRecording">>,
                <<"RecorderOnStop">>, <<"ExchangeResolved", "audio">>,
                <<"DecodeSucceeded">> >>

\* typed text, exchange resolving with text and no audio
TextPath == << <<"SendText">>, <<"ExchangeResolved", "text">> >>

\* capture started, then power-off before any stopCapture; the microphone
\* request settles before or after the power-off
AbandonPaths ==
    { << <<"StartRecording">>, <<"HandlePowerOff">> >>,
      << <<"StartRecording">>, <<"MicGranted">>, <<"HandlePowerOff">> >>,
      << <<"StartRecording">>, <<"MicDenied">>, <<"HandlePowerOff">> >>,
      << <<"StartRecording">>, <<"HandlePowerOff">>, <<"MicGranted">> >>,
      << <<"StartRecording">>, <<"HandlePowerOff">>, <<"MicDenied">> >> }

\* an exchange resolving with text and audio whose decode (or the start of
\* whose playback) fails, after typed text and after a capture
DecodeFailPaths ==
    { << <<"SendText">>, <<"ExchangeResolved", "audio">>, <<"DecodeFailed">> >>,
      << <<"StartRecording">>, <<"MicGranted">>, <<"StopRecording">>,
         <<"RecorderOnStop">>, <<"ExchangeResolved", "audio">>,
         <<"DecodeFailed">> >> }

ScenarioPaths == {VoicePath, TextPath} \cup AbandonPaths \cup DecodeFailPaths

Observe(ms, m) == IF ms # <<>> /\ ms[Len(ms)] = m THEN ms ELSE Append(ms, m)

\* scen after a step: restarted by startCapture/sendText issued at rest,
\* extended while the steps follow a scenario path, dropped otherwise
Track ==
    LET next == Append(scen.run, EvName(lastEvent')) IN
    IF Quiescent /\ lastEvent'.op \in {"StartRecording", "SendText"}
    THEN [run |-> <<EvName(lastEvent')>>, modes |-> Observe(<<mode>>, mode'),
          base |-> Len(chatHistory), played |-> SourcesUsed]
    ELSE IF scen.run # <<>> /\ \E p \in ScenarioPaths : IsPrefix(next, p)
    THEN [scen EXCEPT !.run = next, !.modes = Observe(@, mode')]
    ELSE NoScen

\* ---- initial state -----------------------------------------------------
ControllerInit ==
    /\ powerStatus = "OFF"
    /\ mode = "IDLE"
    /\ isRecording = FALSE
    /\ chatHistory = <<>>
    /\ audioContextRef = FALSE
    /\ mediaRecorderRef = 0
    /\ audioSourceRef = 0
    /\ recorders = [r \in RecorderIds |-> "unused"]
    /\ sources = [s \in TurnIds |-> "unused"]
    /\ bootTimer = FALSE
    /\ micPending = 0
    /\ pendingExchange = {}
    /\ pendingDecode = {}
    /\ interactions = 0
    /\ lastEvent = Ev("Init")
    /\ interrupted = {}
    /\ scen = NoScen

\* no decodeAudioData call under way
NoDecodeCall ==
    /\ base64Data = <<>>
    /\ ctxSampleRate = 0
    /\ container = [kind |-> "none"]
    /\ bytes = <<>>
    /\ decodePc = "idle"
    /\ containerError = "none"
    /\ fallbackError = "none"
    /\ buffer = [kind |-> "none"]
    /\ thrown = "none"

\* a track: its id and whether it has a url (the built-in tracks have none)
DEFAULT_PLAYLIST ==
    << [id |-> "1", url |-> FALSE], [id |-> "2", url |-> FALSE],
       [id |-> "3", url |-> FALSE] >>

MusicInit ==
    /\ playlist = DEFAULT_PLAYLIST
    /\ currentTrack = DEFAULT_PLAYLIST[1]
    /\ isPlaying = FALSE
    /\ uploads = 0

Init == ControllerInit /\ NoDecodeCall /\ MusicInit

\* ---- power -------------------------------------------------------------
\* handlePowerOn: the power button is rendered only while powerStatus is OFF
HandlePowerOn ==
    /\ powerStatus = "OFF"
    /\ audioContextRef' = TRUE
    /\ powerStatus' = "BOOTING"
    /\ bootTimer' = TRUE
    /\ lastEvent' = Ev("HandlePowerOn")
    /\ UNCHANGED <<mode, isRecording, chatHistory, mediaRecorderRef,
                   audioSourceRef, recorders, sources, micPending,
                   pendingExchange, pendingDecode, interactions, interrupted>>
    /\ UNCHANGED decoderVars
    /\ UNCHANGED musicVars
    /\ scen' = Track

\* the setTimeout callback of handlePowerOn
BootTimerFired ==
    /\ bootTimer
    /\ bootTimer' = FALSE
    /\ powerStatus' = "ON"
    /\ mode' = "IDLE"
    /\ lastEvent' = Ev("BootTimerFired")
    /\ UNCHANGED <<isRecording, chatHistory, audioContextRef, mediaRecorderRef,
                   audioSourceRef, recorders, sources, micPending,
                   pendingExchange, pendingDecode, interactions, interrupted>>
    /\ UNCHANGED decoderVars
    /\ UNCHANGED musicVars
    /\ scen' = Track

\* handlePowerOff that also resets the conversation
HandlePowerOffClearsHistory ==
    /\ powerStatus = "ON"
    /\ sources' = StopAudioPlayback(sources, audioSourceRef)
    /\ audioSourceRef' = 0
    /\ IF isRecording
       THEN /\ recorders' = StopTracks(recorders, mediaRecorderRef)
            /\ isRecording' = FALSE
       ELSE UNCHANGED <<recorders, isRecording>>
    /\ powerStatus' = "OFF"
    /\ mode' = "OFF"
    /\ chatHistory' = <<>>
    /\ interrupted' = interrupted \cup pendingExchange
    /\ lastEvent' = Ev("HandlePowerOff")
    /\ UNCHANGED <<audioContextRef, mediaRecorderRef, bootTimer,
                   micPending, pendingExchange, pendingDecode, interactions>>
    /\ UNCHANGED decoderVars
    /\ UNCHANGED musicVars
    /\ scen' = Track

\* handlePowerOff reachable during the boot sequence as well
HandlePowerOffWhileBooting ==
    /\ powerStatus \in {"ON", "BOOTING"}
    /\ sources' = StopAudioPlayback(sources, audioSourceRef)
    /\ audioSourceRef' = 0
    /\ IF isRecording
       THEN /\ recorders' = StopTracks(recorders, mediaRecorderRef)
            /\ isRecording' = FALSE
       ELSE UNCHANGED <<recorders, isRecording>>
    /\ powerStatus' = "OFF"
    /\ mode' = "OFF"
    /\ interrupted' = interrupted \cup pendingExchange
    /\ lastEvent' = Ev("HandlePowerOff")
    /\ UNCHANGED <<chatHistory, audioContextRef, mediaRecorderRef, bootTimer,
                   micPending, pendingExchange, pendingDecode, interactions>>
    /\ UNCHANGED decoderVars
    /\ UNCHANGED musicVars
    /\ scen' = Track

\* handlePowerOff: the menu holding the power-off app is rendered only while ON
HandlePowerOff ==
    /\ powerStatus = "ON"
    /\ sources' = StopAudioPlayback(sources, audioSourceRef)
    /\ audioSourceRef' = 0
    /\ IF isRecording
       THEN /\ recorders' = StopTracks(recorders, mediaRecorderRef)
            /\ isRecording' = FALSE
       ELSE UNCHANGED <<recorders, isRecording>>
    /\ powerStatus' = "OFF"
    /\ mode' = "OFF"
    /\ interrupted' = interrupted \cup pendingExchange
    /\ lastEvent' = Ev("HandlePowerOff")
    /\ UNCHANGED <<chatHistory, audioContextRef, mediaRecorderRef, bootTimer,
                   micPending, pendingExchange, pendingDecode, interactions>>
    /\ UNCHANGED decoderVars
    /\ UNCHANGED musicVars
    /\ scen' = Track

\* ---- capture -----------------------------------------------------------
\* startRecording setting the recording flag and the mode before its await
StartRecordingEager ==
    /\ powerStatus = "ON"
    /\ ~isRecording
    /\ interactions < MaxInteractions
    /\ sources' = StopAudioPlayback(sources, audioSourceRef)
    /\ audioSourceRef' = 0
    /\ micPending' = micPending + 1
    /\ interactions' = interactions + 1
    /\ isRecording' = TRUE
    /\ mode' = "LISTENING"
    /\ interrupted' = interrupted \cup pendingExchange
    /\ lastEvent' = Ev("StartRecording")
    /\ UNCHANGED <<powerStatus, chatHistory, audioContextRef,
                   mediaRecorderRef, recorders, bootTimer, pendingExchange,
                   pendingDecode>>
    /\ UNCHANGED decoderVars
    /\ UNCHANGED musicVars
    /\ scen' = Track

\* handleToggleRecording with isRecording false: startRecording up to its await
StartRecording ==
    /\ powerStatus = "ON"
    /\ ~isRecording
    /\ interactions < MaxInteractions
    /\ sources' = StopAudioPlayback(sources, audioSourceRef)
    /\ audioSourceRef' = 0
    /\ micPending' = micPending + 1
    /\ interactions' = interactions + 1
    /\ interrupted' = interrupted \cup pendingExchange
    /\ lastEvent' = Ev("StartRecording")
    /\ UNCHANGED <<powerStatus, mode, isRecording, chatHistory, audioContextRef,
                   mediaRecorderRef, recorders, bootTimer, pendingExchange,
                   pendingDecode>>
    /\ UNCHANGED decoderVars
    /\ UNCHANGED musicVars
    /\ scen' = Track

\* getUserMedia resolves: the rest of startRecording's try block
MicGranted ==
    /\ micPending > 0
    /\ micPending' = micPending - 1
    /\ mediaRecorderRef' = NextRecorder
    /\ recorders' = [recorders EXCEPT ![NextRecorder] = "recording"]
    /\ isRecording' = TRUE
    /\ mode' = "LISTENING"
    /\ lastEvent' = Ev("MicGranted")
    /\ UNCHANGED <<powerStatus, chatHistory, audioContextRef, audioSourceRef,
                   sources, bootTimer, pendingExchange, pendingDecode,
                   interactions, interrupted>>
    /\ UNCHANGED decoderVars
    /\ UNCHANGED musicVars
    /\ scen' = Track

\* getUserMedia rejects: startRecording's catch block
MicDenied ==
    /\ micPending > 0
    /\ micPending' = micPending - 1
    /\ lastEvent' = Ev("MicDenied")
    /\ UNCHANGED <<powerStatus, mode, isRecording, chatHistory, audioContextRef,
                   mediaRecorderRef, audioSourceRef, recorders, sources,
                   bootTimer, pendingExchange, pendingDecode, interactions,
                   interrupted>>
    /\ UNCHANGED decoderVars
    /\ UNCHANGED musicVars
    /\ scen' = Track

\* handleToggleRecording with isRecording true: stopRecording. stop() on a
\* recorder that is no longer recording changes nothing
StopRecording ==
    /\ powerStatus = "ON"
    /\ isRecording
    /\ mediaRecorderRef # 0
    /\ recorders' = IF recorders[mediaRecorderRef] = "recording"
                    THEN [recorders EXCEPT ![mediaRecorderRef] = "stopping"]
                    ELSE recorders
    /\ lastEvent' = Ev("StopRecording")
    /\ UNCHANGED <<powerStatus, mode, isRecording, chatHistory, audioContextRef,
                   mediaRecorderRef, audioSourceRef, sources, bootTimer,
                   micPending, pendingExchange, pendingDecode, interactions,
                   interrupted>>
    /\ UNCHANGED decoderVars
    /\ UNCHANGED musicVars
    /\ scen' = Track

\* the onstop handler installed by stopRecording
RecorderOnStop(r) ==
    /\ recorders[r] = "stopping"
    /\ recorders' = [recorders EXCEPT ![r] = "inactive"]
    /\ isRecording' = FALSE
    /\ HandleAIInteraction("voice")
    /\ lastEvent' = Ev("RecorderOnStop")
    /\ UNCHANGED <<powerStatus, audioContextRef, mediaRecorderRef,
                   audioSourceRef, sources, bootTimer, micPending,
                   pendingDecode, interactions, interrupted>>
    /\ UNCHANGED decoderVars
    /\ UNCHANGED musicVars
    /\ scen' = Track

\* ---- exchange ----------------------------------------------------------
\* onSendMessage = handleAIInteraction with a string
SendText ==
    /\ powerStatus = "ON"
    /\ interactions < MaxInteractions
    /\ interactions' = interactions + 1
    /\ HandleAIInteraction("typed")
    /\ lastEvent' = Ev("SendText")
    /\ UNCHANGED <<powerStatus, isRecording, audioContextRef, mediaRecorderRef,
                   audioSourceRef, recorders, sources, bootTimer, micPending,
                   pendingDecode, interrupted>>
    /\ UNCHANGED decoderVars
    /\ UNCHANGED musicVars
    /\ scen' = Track

\* generateRobotResponse resolves, then the rest of handleAIInteraction.
\*   "audio": text and audioBase64;  "text": text, no inline audio data;
\*   "error": the catch block's fixed apology text, no audio.
\* response.text || fallback makes result.text non-empty in every outcome.
ExchangeResolved(e, outcome) ==
    /\ e \in pendingExchange
    /\ pendingExchange' = pendingExchange \ {e}
    /\ chatHistory' = Append(chatHistory, ModelEntry(e, outcome))
    /\ mode' = ModeAfterExchange(outcome, mode)
    \* playAudioResponse up to its await
    /\ pendingDecode' = IF StartsDecode(outcome, audioContextRef)
                         THEN pendingDecode \cup {e}
                         ELSE pendingDecode
    /\ interrupted' = interrupted \ {e}
    /\ lastEvent' = [op |-> "ExchangeResolved", turn |-> e, outcome |-> outcome,
                     stale |-> e \in interrupted]
    /\ UNCHANGED <<powerStatus, isRecording, audioContextRef, mediaRecorderRef,
                   audioSourceRef, recorders, sources, bootTimer, micPending,
                   interactions>>
    /\ UNCHANGED decoderVars
    /\ UNCHANGED musicVars
    /\ scen' = Track

\* generateRobotResponse rejects: getAiClient() throws outside the try block,
\* the await in handleAIInteraction rethrows and nothing after it runs
ExchangeRejected(e) ==
    /\ e \in pendingExchange
    /\ pendingExchange' = pendingExchange \ {e}
    /\ interrupted' = interrupted \ {e}
    /\ lastEvent' = Ev("ExchangeRejected")
    /\ UNCHANGED <<powerStatus, mode, isRecording, chatHistory, audioContextRef,
                   mediaRecorderRef, audioSourceRef, recorders, sources,
                   bootTimer, micPending, pendingDecode, interactions>>
    /\ UNCHANGED decoderVars
    /\ UNCHANGED musicVars
    /\ scen' = Track

\* ---- playback ----------------------------------------------------------
\* decodeAudioData resolves: the rest of playAudioResponse's try block
DecodeSucceeded(e) ==
    /\ e \in pendingDecode
    /\ pendingDecode' = pendingDecode \ {e}
    /\ sources' = [StopAudioPlayback(sources, audioSourceRef) EXCEPT ![e] = "playing"]
    /\ audioSourceRef' = e
    /\ mode' = "SPEAKING"
    /\ lastEvent' = Ev("DecodeSucceeded")
    /\ UNCHANGED <<powerStatus, isRecording, chatHistory, audioContextRef,
                   mediaRecorderRef, recorders, bootTimer, micPending,
                   pendingExchange, interactions, interrupted>>
    /\ UNCHANGED decoderVars
    /\ UNCHANGED musicVars
    /\ scen' = Track

\* playAudioResponse's catch block only logging the error
DecodeFailedKeepsMode(e) ==
    /\ e \in pendingDecode
    /\ pendingDecode' = pendingDecode \ {e}
    /\ lastEvent' = Ev("DecodeFailed")
    /\ UNCHANGED <<powerStatus, mode, isRecording, chatHistory, audioContextRef,
                   mediaRecorderRef, audioSourceRef, recorders, sources,
                   bootTimer, micPending, pendingExchange, interactions,
                   interrupted>>
    /\ UNCHANGED decoderVars
    /\ UNCHANGED musicVars
    /\ scen' = Track

\* decodeAudioData rejects: playAudioResponse's catch block
DecodeFailed(e) ==
    /\ e \in pendingDecode
    /\ pendingDecode' = pendingDecode \ {e}
    /\ mode' = "IDLE"
    /\ lastEvent' = Ev("DecodeFailed")
    /\ UNCHANGED <<powerStatus, isRecording, chatHistory, audioContextRef,
                   mediaRecorderRef, audioSourceRef, recorders, sources,
                   bootTimer, micPending, pendingExchange, interactions,
                   interrupted>>
    /\ UNCHANGED decoderVars
    /\ UNCHANGED musicVars
    /\ scen' = Track

\* source.onended, the buffer having played to its end
PlaybackEnded(s) ==
    /\ sources[s] = "playing"
    /\ sources' = [sources EXCEPT ![s] = "ended"]
    /\ mode' = "IDLE"
    /\ lastEvent' = Ev("PlaybackEnded")
    /\ UNCHANGED <<powerStatus, isRecording, chatHistory, audioContextRef,
                   mediaRecorderRef, audioSourceRef, recorders, bootTimer,
                   micPending, pendingExchange, pendingDecode, interactions,
                   interrupted>>
    /\ UNCHANGED decoderVars
    /\ UNCHANGED musicVars
    /\ scen' = Track

\* source.onended, dispatched after stopAudioPlayback's stop()
StoppedSourceEnded(s) ==
    /\ sources[s] = "stopped"
    /\ sources' = [sources EXCEPT ![s] = "ended"]
    /\ mode' = "IDLE"
    /\ lastEvent' = Ev("StoppedSourceEnded")
    /\ UNCHANGED <<powerStatus, isRecording, chatHistory, audioContextRef,
                   mediaRecorderRef, audioSourceRef, recorders, bootTimer,
                   micPending, pendingExchange, pendingDecode, interactions,
                   interrupted>>
    /\ UNCHANGED decoderVars
    /\ UNCHANGED musicVars
    /\ scen' = Track

\* ---- specification -----------------------------------------------------
Next ==
    \/ HandlePowerOn
    \/ BootTimerFired
    \/ HandlePowerOff
    \/ StartRecording
    \/ MicGranted
    \/ MicDenied
    \/ StopRecording
    \/ \E r \in RecorderIds : RecorderOnStop(r)
    \/ SendText
    \/ \E e \in TurnIds, outcome \in {"audio", "text", "error"} : ExchangeResolved(e, outcome)
    \/ \E e \in TurnIds : ExchangeRejected(e)
    \/ \E e \in TurnIds : DecodeSucceeded(e)
    \/ \E e \in TurnIds : DecodeFailed(e)
    \/ \E s \in TurnIds : PlaybackEnded(s)
    \/ \E s \in TurnIds : StoppedSourceEnded(s)

Spec == Init /\ [][Next]_vars

\* every pending callback eventually runs: the exchange promise settles, the
\* decode settles, a started or stopped source gets its ended event, a
\* stopped recorder its stop event, the boot timer fires and the microphone
\* request settles; the user's own steps are under no obligation
ExchangeSettles ==
    \/ \E e \in TurnIds, outcome \in {"audio", "text", "error"} : ExchangeResolved(e, outcome)
    \/ \E e \in TurnIds : ExchangeRejected(e)

DecodeSettles == \E e \in TurnIds : DecodeSucceeded(e) \/ DecodeFailed(e)

SourceEnds == \E s \in TurnIds : PlaybackEnded(s) \/ StoppedSourceEnded(s)

FairSpec ==
    /\ Spec
    /\ WF_vars(ExchangeSettles)
    /\ WF_vars(DecodeSettles)
    /\ WF_vars(SourceEnds)
    /\ WF_vars(\E r \in RecorderIds : RecorderOnStop(r))
    /\ WF_vars(BootTimerFired)
    /\ WF_vars(MicGranted \/ MicDenied)

TypeOK ==
    /\ powerStatus \in {"OFF", "BOOTING", "ON"}
    /\ mode \in {"IDLE", "LISTENING", "THINKING", "SPEAKING", "OFF"}
    /\ isRecording \in BOOLEAN
    /\ mediaRecorderRef \in 0..MaxInteractions
    /\ audioSourceRef \in 0..MaxInteractions
    /\ micPending \in 0..MaxInteractions
    /\ pendingExchange \subseteq TurnIds
    /\ pendingDecode \subseteq TurnIds
    /\ recorders \in [RecorderIds -> {"unused", "recording", "stopping", "inactive"}]
    /\ sources \in [TurnIds -> {"unused", "playing", "stopped", "ended"}]
    /\ \A i \in 1..Len(chatHistory) :
          /\ chatHistory[i].role \in {"user", "model"}
          /\ chatHistory[i].turn \in TurnIds
    /\ isRecording => mediaRecorderRef # 0
    /\ interactions \in 0..MaxInteractions

\* ---- decodeAudioData (audioUtils) ---------------------------------------
\* A base64 string is a sequence of characters: 0..63 are the alphabet's
\* characters by value, PadChar is '=', BadChar any other character.
PadChar == 64
BadChar == 65

RawSampleRate == 24000
RawNumChannels == 1
PcmScale == 32768

ByteValues == {0, 1, 127, 128, 255}
ContainerRates == {24000, 44100}
\* an AudioContext built without options runs at the output device's rate
ContextRates == {44100, 48000}

Payloads == UNION {[1..n -> ByteValues] : n \in 0..MaxPayloadLen}

\* the base64 text the TTS response carries for a byte payload
RECURSIVE Btoa(_)
Btoa(b) ==
    IF Len(b) >= 3
    THEN << b[1] \div 4, (b[1] % 4) * 16 + b[2] \div 16,
            (b[2] % 16) * 4 + b[3] \div 64, b[3] % 64 >>
         \o Btoa(SubSeq(b, 4, Len(b)))
    ELSE IF Len(b) = 2
    THEN << b[1] \div 4, (b[1] % 4) * 16 + b[2] \div 16, (b[2] % 16) * 4, PadChar >>
    ELSE IF Len(b) = 1
    THEN << b[1] \div 4, (b[1] % 4) * 16, PadChar, PadChar >>
    ELSE << >>

\* atob: one or two trailing '=' are dropped when the length is a multiple of 4
StripPadding(t) ==
    IF Len(t) > 0 /\ Len(t) % 4 = 0 /\ t[Len(t)] = PadChar
    THEN IF t[Len(t) - 1] = PadChar
         THEN SubSeq(t, 1, Len(t) - 2)
         ELSE SubSeq(t, 1, Len(t) - 1)
    ELSE t

\* atob throws InvalidCharacterError
AtobThrows(t) ==
    LET u == StripPadding(t)
    IN  \/ Len(u) % 4 = 1
        \/ \E i \in 1..Len(u) : u[i] \notin 0..63

RECURSIVE DecodeSextets(_)
DecodeSextets(u) ==
    IF Len(u) >= 4
    THEN << u[1] * 4 + u[2] \div 16, (u[2] % 16) * 16 + u[3] \div 4,
            (u[3] % 4) * 64 + u[4] >>
         \o DecodeSextets(SubSeq(u, 5, Len(u)))
    ELSE IF Len(u) = 3
    THEN << u[1] * 4 + u[2] \div 16, (u[2] % 16) * 16 + u[3] \div 4 >>
    ELSE IF Len(u) = 2
    THEN << u[1] * 4 + u[2] \div 16 >>
    ELSE << >>

\* atob and the loop copying its characters' codes into the Uint8Array
Atob(t) == DecodeSextets(StripPadding(t))

Base64Inputs ==
    {Btoa(b) : b \in Payloads}
        \cup {Append(Btoa(b), BadChar) : b \in {p \in Payloads : Len(p) <= 1}}
        \cup {<<0>>}

NoContainer == [kind |-> "none"]

\* bytes that begin like a container and are cut short: ctx.decodeAudioData
\* rejects them as it rejects any other bytes
TruncatedContainer == [kind |-> "none", looksLike |-> "container"]

Containers ==
    [kind : {"container"}, sampleRate : ContainerRates, numberOfChannels : {1, 2}]

NoBuffer == [kind |-> "none"]

\* ctx.decodeAudioData on a container it accepts: the audio is resampled to
\* the context's rate, the channels are the container's
AudioContextDecode(c, rate) ==
    [kind |-> "decoded", sampleRate |-> rate,
     numberOfChannels |-> c.numberOfChannels]

\* element of an Int16Array over two bytes (little-endian hosts)
ToInt16Unsigned(lo, hi) == lo + 256 * hi

ToInt16(lo, hi) ==
    LET u == lo + 256 * hi
    IN  IF u >= 32768 THEN u - 65536 ELSE u

\* new Int16Array(bytes.buffer)
DataInt16(b) == [i \in 0..(Len(b) \div 2 - 1) |-> ToInt16(b[2 * i + 1], b[2 * i + 2])]

\* Int16Array's constructor throws RangeError on an odd byte length;
\* createBuffer throws NotSupportedError on a frame count below 1
RawPcmErrorEmptyAllowed(b) ==
    IF Len(b) % 2 # 0 THEN "RangeError" ELSE "none"

RawPcmError(b) ==
    IF Len(b) % 2 # 0 THEN "RangeError"
    ELSE IF (Len(b) \div 2) \div RawNumChannels < 1 THEN "NotSupportedError"
    ELSE "none"

\* dataInt16[...] / 32768.0, exact in a Float32Array: kept as a fraction
Amplitude(sample) == [num |-> sample, den |-> PcmScale]

\* the buffer the raw PCM fallback fills
RawPcmBuffer(b) ==
    LET dataInt16 == DataInt16(b)
        frameCount == (Len(b) \div 2) \div RawNumChannels
    IN  [kind |-> "pcm", sampleRate |-> RawSampleRate,
         numberOfChannels |-> RawNumChannels, length |-> frameCount,
         channelData |->
             [channel \in 0..(RawNumChannels - 1) |->
                 [i \in 0..(frameCount - 1) |->
                     Amplitude(dataInt16[i * RawNumChannels + channel])]]]

\* the inner catch block's throw
FallbackThrowsInner(e, err) == err

FallbackThrows(e, err) == e

\* decodeAudioData is called on one argument pair; ctx.decodeAudioData
\* accepts no empty input
DecodeInit ==
    /\ ControllerInit
    /\ MusicInit
    /\ base64Data \in Base64Inputs
    /\ ctxSampleRate \in ContextRates
    /\ container \in {NoContainer} \cup
           (IF AtobThrows(base64Data) \/ Atob(base64Data) = << >>
            THEN {} ELSE Containers \cup {TruncatedContainer})
    /\ bytes = << >>
    /\ decodePc = "called"
    /\ containerError = "none"
    /\ fallbackError = "none"
    /\ buffer = NoBuffer
    /\ thrown = "none"

\* atob and the byte loop, up to the await of ctx.decodeAudioData
DecodeBase64 ==
    /\ decodePc = "called"
    /\ IF AtobThrows(base64Data)
       THEN /\ thrown' = "InvalidCharacterError"
            /\ decodePc' = "rejected"
            /\ UNCHANGED bytes
       ELSE /\ bytes' = Atob(base64Data)
            /\ decodePc' = "awaiting"
            /\ UNCHANGED thrown
    /\ UNCHANGED <<base64Data, ctxSampleRate, container, containerError,
                   fallbackError, buffer>>
    /\ UNCHANGED controllerVars
    /\ UNCHANGED musicVars

\* ctx.decodeAudioData resolves and the raw PCM fallback runs as well
ContainerDecodedThenRawPcm ==
    /\ decodePc = "awaiting"
    /\ container.kind = "container"
    /\ buffer' = RawPcmBuffer(bytes)
    /\ decodePc' = "resolved"
    /\ UNCHANGED <<base64Data, ctxSampleRate, container, bytes, containerError,
                   fallbackError, thrown>>
    /\ UNCHANGED controllerVars
    /\ UNCHANGED musicVars

\* ctx.decodeAudioData resolves: its buffer is returned
ContainerDecoded ==
    /\ decodePc = "awaiting"
    /\ container.kind = "container"
    /\ buffer' = AudioContextDecode(container, ctxSampleRate)
    /\ decodePc' = "resolved"
    /\ UNCHANGED <<base64Data, ctxSampleRate, container, bytes, containerError,
                   fallbackError, thrown>>
    /\ UNCHANGED controllerVars
    /\ UNCHANGED musicVars

\* ctx.decodeAudioData rejects and the raw PCM fallback returns its buffer
RawPcmFallback ==
    /\ decodePc = "awaiting"
    /\ container.kind = "none"
    /\ RawPcmError(bytes) = "none"
    /\ containerError' = "EncodingError"
    /\ buffer' = RawPcmBuffer(bytes)
    /\ decodePc' = "resolved"
    /\ UNCHANGED <<base64Data, ctxSampleRate, container, bytes, fallbackError,
                   thrown>>
    /\ UNCHANGED controllerVars
    /\ UNCHANGED musicVars

\* ctx.decodeAudioData rejects and the raw PCM fallback throws
RawPcmFallbackFailed ==
    /\ decodePc = "awaiting"
    /\ container.kind = "none"
    /\ RawPcmError(bytes) # "none"
    /\ containerError' = "EncodingError"
    /\ fallbackError' = RawPcmError(bytes)
    /\ thrown' = FallbackThrows(containerError', fallbackError')
    /\ decodePc' = "rejected"
    /\ UNCHANGED <<base64Data, ctxSampleRate, container, bytes, buffer>>
    /\ UNCHANGED controllerVars
    /\ UNCHANGED musicVars

DecodeNext ==
    \/ DecodeBase64
    \/ ContainerDecoded
    \/ RawPcmFallback
    \/ RawPcmFallbackFailed

DecodeSpec == DecodeInit /\ [][DecodeNext]_vars

DecodeSettled == decodePc \in {"resolved", "rejected"}

\* ---- music player (RobotFace) -------------------------------------------
\* The player's state is independent of the interaction controller's; its
\* screen is reachable whenever the robot is ON.
EmptyTrack == [id |-> "empty", url |-> FALSE]

\* the value undefined held by currentTrack: the next render reads
\* currentTrack.id and throws, so no handler runs after it
Undefined == [id |-> "undefined", url |-> FALSE]

Tracks(pl) == {pl[i] : i \in 1..Len(pl)}

\* playlist.findIndex(t => t.id === id): zero-based, -1 when absent
FindIndex(pl, id) ==
    IF \E i \in 1..Len(pl) : pl[i].id = id
    THEN (CHOOSE i \in 1..Len(pl) :
              pl[i].id = id /\ \A j \in 1..(i - 1) : pl[j].id # id) - 1
    ELSE 0 - 1

\* playlist[k] for a zero-based k; (idx + 1) % 0 is NaN and playlist[NaN]
\* is undefined
At(pl, k) == pl[k + 1]

\* handleNextTrack's argument to setCurrentTrack
NextTrackOf(pl, cur) ==
    LET idx == FindIndex(pl, cur.id) IN
    IF idx = 0 - 1 /\ Len(pl) > 0 THEN At(pl, 0)
    ELSE IF Len(pl) = 0 THEN Undefined
    ELSE At(pl, (idx + 1) % Len(pl))

\* handlePrevTrack's argument to setCurrentTrack
PrevTrackOf(pl, cur) ==
    LET idx == FindIndex(pl, cur.id) IN
    IF idx = 0 - 1 /\ Len(pl) > 0 THEN At(pl, 0)
    ELSE IF Len(pl) = 0 THEN Undefined
    ELSE At(pl, (idx - 1 + Len(pl)) % Len(pl))

\* prev.filter(t => t.id !== id)
Without(pl, id) == SelectSeq(pl, LAMBDA t : t.id # id)

\* the tracks built from a selection of n files, the k-th selection handled
NewTracks(k, n) ==
    [index \in 1..n |->
        [id |-> "local-" \o ToString(k) \o "-" \o ToString(index - 1),
         url |-> TRUE]]

\* handleFileUpload with n files selected (n >= 1)
HandleFileUpload(n) ==
    /\ currentTrack # Undefined
    /\ uploads < MaxUploads
    /\ uploads' = uploads + 1
    /\ LET newTracks == NewTracks(uploads + 1, n)
           isPlaceholder == \/ currentTrack.id = "empty"
                            \/ \A t \in Tracks(playlist) : ~t.url
       IN  /\ playlist' = Without(playlist, "empty") \o newTracks
           /\ IF isPlaceholder
              THEN currentTrack' = newTracks[1] /\ isPlaying' = TRUE
              ELSE UNCHANGED <<currentTrack, isPlaying>>
    /\ UNCHANGED <<controllerVars, decoderVars>>

\* handleDeleteTrack, from the delete button of a playlist row
HandleDeleteTrack(trackId) ==
    /\ currentTrack # Undefined
    /\ \E t \in Tracks(playlist) : t.id = trackId
    /\ LET newPlaylist == Without(playlist, trackId) IN
       /\ playlist' = newPlaylist
       /\ IF currentTrack.id = trackId
          THEN /\ isPlaying' = FALSE
               /\ currentTrack' = IF Len(newPlaylist) > 0 THEN newPlaylist[1]
                                  ELSE EmptyTrack
          ELSE UNCHANGED <<currentTrack, isPlaying>>
    /\ UNCHANGED uploads
    /\ UNCHANGED <<controllerVars, decoderVars>>

\* handleNextTrack, from the skip-forward button
HandleNextTrack ==
    /\ currentTrack # Undefined
    /\ currentTrack' = NextTrackOf(playlist, currentTrack)
    /\ UNCHANGED <<playlist, isPlaying, uploads>>
    /\ UNCHANGED <<controllerVars, decoderVars>>

\* handlePrevTrack, from the skip-back button
HandlePrevTrack ==
    /\ currentTrack # Undefined
    /\ currentTrack' = PrevTrackOf(playlist, currentTrack)
    /\ UNCHANGED <<playlist, isPlaying, uploads>>
    /\ UNCHANGED <<controllerVars, decoderVars>>

\* a playlist row is clicked
SelectTrack(t) ==
    /\ currentTrack # Undefined
    /\ t \in Tracks(playlist)
    /\ currentTrack' = t
    /\ UNCHANGED <<playlist, isPlaying, uploads>>
    /\ UNCHANGED <<controllerVars, decoderVars>>

\* the play button, disabled while the current track has no url
TogglePlay ==
    /\ currentTrack # Undefined
    /\ currentTrack.url
    /\ isPlaying' = ~isPlaying
    /\ UNCHANGED <<playlist, currentTrack, uploads>>
    /\ UNCHANGED <<controllerVars, decoderVars>>

\* the audio element's ended event. handleEnded was installed by an effect
\* with no dependencies, so the handleNextTrack it calls is the first
\* render's and reads that render's playlist and currentTrack
AudioEnded ==
    /\ currentTrack # Undefined
    /\ currentTrack.url
    /\ isPlaying
    /\ isPlaying' = FALSE
    /\ currentTrack' = NextTrackOf(DEFAULT_PLAYLIST, DEFAULT_PLAYLIST[1])
    /\ UNCHANGED <<playlist, uploads>>
    /\ UNCHANGED <<controllerVars, decoderVars>>

AllTrackIds ==
    {DEFAULT_PLAYLIST[i].id : i \in 1..Len(DEFAULT_PLAYLIST)}
        \cup {t.id : t \in UNION {Tracks(NewTracks(k, 2)) : k \in 1..MaxUploads}}

MusicNext ==
    \/ \E n \in 1..2 : HandleFileUpload(n)
    \/ \E id \in AllTrackIds : HandleDeleteTrack(id)
    \/ HandleNextTrack
    \/ HandlePrevTrack
    \/ \E t \in Tracks(playlist) : SelectTrack(t)
    \/ TogglePlay
    \/ AudioEnded

MusicSpec == Init /\ [][MusicNext]_vars

\* ---- properties --------------------------------------------------------
Idle == mode \in {"IDLE", "OFF"}

ModelEntriesOf(t) ==
    {i \in 1..Len(chatHistory) : chatHistory[i].role = "model" /\ chatHistory[i].turn = t}

\* C1: a step that resolves an exchange interrupted while it was pending
\* (power-off or a new capture request) appends nothing to chatHistory,
\* starts no decode or playback and leaves the mode as the interrupt left it.
C1_StaleResolutionDiscarded ==
    [][(/\ lastEvent'.op = "ExchangeResolved"
        /\ lastEvent'.stale
        /\ lastEvent'.turn \in pendingExchange
        /\ pendingExchange' = pendingExchange \ {lastEvent'.turn})
       => (/\ chatHistory' = chatHistory
           /\ pendingDecode' = pendingDecode
           /\ mode' = mode)]_vars

\* C2: in every reachable state, a recording MediaRecorder and a playing
\* audio source never exist together.
C2_NoCaptureWithPlayback == CaptureLive = {} \/ PlaybackLive = {}

\* C3 as stated: after the exchange of a turn failed, the state is Idle and
\* chatHistory holds no agent entry for that turn.
C3_FailureAppendsNothing ==
    (\/ lastEvent.op = "ExchangeRejected"
     \/ lastEvent.op = "ExchangeResolved" /\ lastEvent.outcome = "error")
    => Idle /\ ModelEntriesOf(lastEvent.turn) = {}

\* C3 as amended: after a failure caught inside generateRobotResponse, the
\* mode is IDLE and the last entry of chatHistory is the turn's only agent
\* entry, carrying the fixed apology text.
C3_CaughtFailureSurfacedInChat ==
    (lastEvent.op = "ExchangeResolved" /\ lastEvent.outcome = "error")
    => /\ mode = "IDLE"
       /\ chatHistory # <<>>
       /\ chatHistory[Len(chatHistory)] =
              [role |-> "model", turn |-> lastEvent.turn, text |-> "error"]
       /\ ModelEntriesOf(lastEvent.turn) = {Len(chatHistory)}

C3_Witness ==
    /\ lastEvent.op = "ExchangeResolved"
    /\ lastEvent.outcome = "error"
    /\ ~lastEvent.stale
    /\ powerStatus = "ON"
    /\ Settled

\* C4: after a failure (microphone denied, exchange failing or rejecting,
\* decode or playback start failing) with nothing else in flight, the state
\* is Idle.
C4_FailureReturnsToIdle ==
    (/\ \/ lastEvent.op \in {"MicDenied", "ExchangeRejected", "DecodeFailed"}
        \/ lastEvent.op = "ExchangeResolved" /\ lastEvent.outcome = "error"
     /\ Settled)
    => Idle

\* C5: while the robot is powered off the controller is Idle, no recorder is
\* recording, the recording flag is false and no source is playing, whatever
\* was pending when handlePowerOff ran.
C5_PowerOffCancelsEverything ==
    powerStatus = "OFF"
    => Idle /\ ~isRecording /\ CaptureLive = {} /\ PlaybackLive = {}

\* C6: in every reachable state at most one audio source is started and
\* neither stopped nor ended.
C6_AtMostOnePlayback == Cardinality(PlaybackLive) <= 1

\* two exchanges overlapped: the second decode stopped the first source
C6_Witness ==
    /\ lastEvent.op = "DecodeSucceeded"
    /\ Cardinality(PlaybackLive) = 1
    /\ \E s \in TurnIds : sources[s] = "stopped"
    /\ \A r \in RecorderIds : recorders[r] = "unused"
    /\ micPending = 0

\* C7: in every reachable state at most one MediaRecorder is recording.
C7_AtMostOneCapture == Cardinality(CaptureLive) <= 1

\* the modes of the voice scenario, and how many of them have been observed
\* after each step of VoicePath
VoiceModes == <<"IDLE", "LISTENING", "THINKING", "SPEAKING">>

VoiceModeCount == <<1, 2, 2, 3, 3, 4>>

\* C8: along startCapture, microphone grant, stopCapture, recorder stop,
\* exchange resolving with text and audio, decode succeeding, begun at rest
\* and with no other event in between, the modes observed are IDLE,
\* LISTENING, THINKING, SPEAKING in this order and, at the end, chatHistory
\* has grown by the user placeholder and the agent text and exactly one
\* source has been started.
C8_VoiceScenario ==
    (scen.run # <<>> /\ IsPrefix(scen.run, VoicePath))
    => /\ scen.modes = SubSeq(VoiceModes, 1, VoiceModeCount[Len(scen.run)])
       /\ scen.run = VoicePath
          => /\ mode = "SPEAKING"
             /\ Len(chatHistory) = scen.base + 2
             /\ chatHistory[scen.base + 1].role = "user"
             /\ chatHistory[scen.base + 1].text = "voice"
             /\ chatHistory[scen.base + 2].role = "model"
             /\ chatHistory[scen.base + 2].turn = chatHistory[scen.base + 1].turn
             /\ SourcesUsed = scen.played + 1
             /\ Cardinality(PlaybackLive) = 1

C8_Witness == scen.run = VoicePath

\* C9: sendText issued at rest with an empty chatHistory, followed by the
\* exchange resolving with text and no audio, ends with mode IDLE, chatHistory
\* holding exactly the user text and the agent text, no decode pending and
\* no source started.
C9_TextScenario ==
    (scen.run = TextPath /\ scen.base = 0)
    => /\ mode = "IDLE"
       /\ Len(chatHistory) = 2
       /\ chatHistory[1] = [role |-> "user", turn |-> 1, text |-> "typed"]
       /\ chatHistory[2] = [role |-> "model", turn |-> 1, text |-> "reply"]
       /\ pendingDecode = {}
       /\ SourcesUsed = scen.played
       /\ PlaybackLive = {}

C9_Witness == scen.run = TextPath /\ scen.base = 0

\* C10: after startCapture issued at rest and a power-off before any
\* stopCapture, the state is Idle, chatHistory is as it was and no exchange
\* has been issued.
C10_AbandonedCapture ==
    scen.run \in AbandonPaths
    => Idle /\ Len(chatHistory) = scen.base /\ pendingExchange = {}

\* C11: startCapture issued at rest whose microphone request is denied
\* leaves the mode IDLE, the recording flag false, no recorder recording or
\* stopping, chatHistory as it was and no exchange issued.
C11_MicDeniedStaysIdle ==
    scen.run = << <<"StartRecording">>, <<"MicDenied">> >>
    => /\ mode = "IDLE"
       /\ ~isRecording
       /\ \A r \in RecorderIds : recorders[r] \in {"unused", "inactive"}
       /\ Len(chatHistory) = scen.base
       /\ pendingExchange = {}

C11_Witness ==
    /\ scen.run = << <<"StartRecording">>, <<"MicDenied">> >>
    /\ lastEvent.op = "MicDenied"
    /\ powerStatus = "ON"

\* C12: after an exchange begun at rest resolved with text and audio and the
\* decode (or the start of playback) failed, the agent text is the last
\* entry of chatHistory, which has grown by two, SPEAKING was never observed,
\* no source was started and the mode is IDLE, as on the no-audio path.
C12_DecodeFailureLikeNoAudio ==
    scen.run \in DecodeFailPaths
    => /\ mode = "IDLE"
       /\ Len(chatHistory) = scen.base + 2
       /\ chatHistory[scen.base + 1].role = "user"
       /\ chatHistory[scen.base + 2] =
              [role |-> "model", turn |-> chatHistory[scen.base + 1].turn,
               text |-> "reply"]
       /\ \A i \in 1..Len(scen.modes) : scen.modes[i] # "SPEAKING"
       /\ SourcesUsed = scen.played
       /\ PlaybackLive = {}
       /\ pendingDecode = {}

C12_Witness ==
    /\ scen.run \in DecodeFailPaths
    /\ lastEvent.op = "DecodeFailed"
    /\ scen.run[1] = <<"StartRecording">>

\* C13: every step leaves the previous chatHistory a prefix of the next one.
C13_ChatHistoryAppendOnly == [][IsPrefix(chatHistory, chatHistory')]_vars

\* a conversation that went through power-off and power-on
C13_Witness ==
    /\ lastEvent.op = "BootTimerFired"
    /\ Len(chatHistory) >= 2

\* C14 as stated: whenever the mode is LISTENING the recording flag is true
\* and a recorder is recording.
C14_ListeningHasRecorderRecording ==
    mode = "LISTENING" => isRecording /\ CaptureLive # {}

\* C14 as amended: whenever the mode is LISTENING the recording flag is true
\* and the current recorder is recording or has been stopped with its stop
\* event, which finalizes the capture, still pending.
C14_ListeningHasOpenCapture ==
    mode = "LISTENING"
    => /\ isRecording
       /\ mediaRecorderRef # 0
       /\ recorders[mediaRecorderRef] \in {"recording", "stopping"}

C14_Witness ==
    /\ mode = "LISTENING"
    /\ lastEvent.op = "StopRecording"
    /\ recorders[mediaRecorderRef] = "stopping"

\* C15: whenever the mode is SPEAKING the current audio source exists and is
\* playing.
C15_SpeakingHasPlayback ==
    mode = "SPEAKING" => audioSourceRef # 0 /\ sources[audioSourceRef] = "playing"

\* C16: whenever the mode is IDLE no recorder is recording and no source is
\* playing.
C16_IdleHasNeither ==
    mode = "IDLE" => CaptureLive = {} /\ PlaybackLive = {}

\* ---- decodeAudioData properties ----------------------------------------
\* the byte payload atob produced is the one the sender encoded
AtobInvertsBtoa == \A b \in Payloads : Atob(Btoa(b)) = b /\ ~AtobThrows(Btoa(b))

\* C17 as stated: for a payload ctx.decodeAudioData accepts, the returned
\* buffer's sample rate and channel count are those of the container header.
C17_RateAndChannelsOfHeader ==
    (DecodeSettled /\ container.kind = "container")
    => /\ decodePc = "resolved"
       /\ buffer.sampleRate = container.sampleRate
       /\ buffer.numberOfChannels = container.numberOfChannels

\* C17 as amended: for a payload ctx.decodeAudioData accepts, the call
\* resolves with that decoder's buffer unmodified and the raw PCM fallback
\* is not run: the channel count is the container's and the sample rate is
\* the one the decoder reports, the AudioContext's.
C17_ContainerBufferUnmodified ==
    (DecodeSettled /\ container.kind = "container")
    => /\ decodePc = "resolved"
       /\ buffer.kind = "decoded"
       /\ buffer.numberOfChannels = container.numberOfChannels
       /\ buffer.sampleRate = ctxSampleRate
       /\ containerError = "none"
       /\ fallbackError = "none"
       /\ thrown = "none"

C17_Witness ==
    /\ decodePc = "resolved"
    /\ container.kind = "container"
    /\ container.sampleRate # ctxSampleRate
    /\ container.numberOfChannels = 2
    /\ Len(bytes) % 2 = 0

\* C18: a payload of 2*n bytes (n >= 1) that ctx.decodeAudioData rejects is
\* resolved with a mono 24000 Hz buffer of exactly n samples, sample i being
\* the i-th little-endian signed 16-bit integer over 32768, within [-1, 1).
C18_RawPcmSamples ==
    (DecodeSettled /\ container.kind = "none"
        /\ Len(bytes) >= 2 /\ Len(bytes) % 2 = 0)
    => /\ decodePc = "resolved"
       /\ buffer.kind = "pcm"
       /\ buffer.numberOfChannels = 1
       /\ buffer.sampleRate = 24000
       /\ buffer.length = Len(bytes) \div 2
       /\ DOMAIN buffer.channelData = {0}
       /\ DOMAIN buffer.channelData[0] = 0..(Len(bytes) \div 2 - 1)
       /\ \A i \in 0..(Len(bytes) \div 2 - 1) :
             LET u == bytes[2 * i + 1] + 256 * bytes[2 * i + 2]
                 a == buffer.channelData[0][i]
             IN  /\ a.den = 32768
                 /\ a.num = IF u < 32768 THEN u ELSE u - 65536
                 /\ 0 - a.den <= a.num
                 /\ a.num < a.den

\* two samples, the lowest and the highest 16-bit values
C18_Witness ==
    /\ decodePc = "resolved"
    /\ container.kind = "none"
    /\ bytes = <<0, 128, 255, 127>>
    /\ buffer.length = 2

\* C19: the call on an empty payload rejects; no call ever resolves with a
\* buffer of length zero.
C19_EmptyPayloadRejects ==
    /\ (DecodeSettled /\ base64Data = << >>)
           => decodePc = "rejected" /\ thrown # "none" /\ buffer.kind = "none"
    /\ (decodePc = "resolved" /\ buffer.kind = "pcm") => buffer.length >= 1

C19_Witness ==
    /\ decodePc = "rejected"
    /\ base64Data = << >>
    /\ bytes = << >>
    /\ fallbackError = "NotSupportedError"

\* C20: the call on a byte payload rejects exactly when ctx.decodeAudioData
\* rejects it and the raw PCM interpretation throws too (odd or zero
\* length); the error is then the one ctx.decodeAudioData rejected with;
\* in every other case the call resolves with a buffer.
C20_FailsOnlyIfBothFail ==
    (DecodeSettled /\ ~AtobThrows(base64Data))
    => /\ decodePc = "rejected"
           <=> /\ container.kind = "none"
               /\ (Len(bytes) % 2 = 1 \/ Len(bytes) = 0)
       /\ decodePc = "rejected"
           => /\ containerError = "EncodingError"
              /\ fallbackError \in {"RangeError", "NotSupportedError"}
              /\ thrown = containerError
              /\ buffer.kind = "none"
       /\ decodePc = "resolved"
           => buffer.kind \in {"decoded", "pcm"} /\ thrown = "none"

\* an odd-length payload that is no container
C20_Witness ==
    /\ decodePc = "rejected"
    /\ container.kind = "none"
    /\ Len(bytes) = 3
    /\ fallbackError = "RangeError"

\* C21: a payload that begins like a container and is cut short, whatever
\* its length in bytes, is resolved with the raw PCM fallback's buffer and
\* never rejected.
C21_TruncatedContainerYieldsBuffer ==
    (DecodeSettled /\ container = TruncatedContainer)
    => /\ decodePc = "resolved"
       /\ buffer.kind = "pcm"
       /\ thrown = "none"

\* C22: a step in which the onstop handler of a capture stopped in LISTENING
\* runs enters THINKING with no source playing and issues exactly one
\* exchange.
C22_StopCaptureCancelsPlayback ==
    [][(lastEvent'.op = "RecorderOnStop" /\ mode = "LISTENING")
          => /\ mode' = "THINKING"
             /\ PlaybackLive' = {}
             /\ pendingExchange \subseteq pendingExchange'
             /\ Cardinality(pendingExchange' \ pendingExchange) = 1]_vars

\* C23: a step in which a source playing in SPEAKING ends naturally sets
\* the mode to IDLE and leaves audioSourceRef not referencing that source.
C23_EndedSourceReleased ==
    [][\A s \in TurnIds :
          (mode = "SPEAKING" /\ sources[s] = "playing" /\ sources'[s] = "ended")
              => mode' = "IDLE" /\ audioSourceRef' # s]_vars

\* C24: while an exchange is pending and neither a power-off nor a capture
\* request was issued since it began, the mode is THINKING.
C24_PendingExchangeKeepsThinking ==
    (pendingExchange \ interrupted) # {} => mode = "THINKING"

\* C25: whenever a source is playing the mode is SPEAKING.
C25_LivePlaybackIsSpeaking ==
    PlaybackLive # {} => mode = "SPEAKING"

\* C26: from handlePowerOff to the next handlePowerOn powerStatus is OFF,
\* the mode is OFF, the recording flag is false and no source is playing.
C26_PowerOffIsQuiet ==
    (powerStatus = "OFF" /\ lastEvent.op # "Init")
    => mode = "OFF" /\ ~isRecording /\ PlaybackLive = {}

\* C28: chatHistory alternates user and model entries, starting with a user
\* entry, each model entry following the user entry of its own exchange.
C28_HistoryAlternates ==
    \A i \in 1..Len(chatHistory) :
        IF i % 2 = 1
        THEN chatHistory[i].role = "user"
        ELSE /\ chatHistory[i].role = "model"
             /\ chatHistory[i].turn = chatHistory[i - 1].turn

\* C27: when every pending callback eventually runs, the mode THINKING is
\* always eventually left.
C27_ThinkingIsLeft == (mode = "THINKING") ~> (mode # "THINKING")

\* C29: currentTrack is always a track object: a member of the playlist or,
\* when the playlist is empty, the 'empty' placeholder.
C29_CurrentTrackDefined ==
    /\ currentTrack # Undefined
    /\ \/ currentTrack \in Tracks(playlist)
       \/ playlist = << >> /\ currentTrack = EmptyTrack

\* the last clause of C29 alone: next and previous never set currentTrack
\* to undefined
CurrentTrackNeverUndefined == currentTrack # Undefined

\* C30: powerStatus changes only OFF -> BOOTING -> ON -> OFF; handlePowerOn
\* runs only when OFF, only the boot timer sets ON and it fires only while
\* BOOTING, handlePowerOff runs only when ON and startRecording is called
\* only while ON.
C30_PowerCycle ==
    [][/\ powerStatus' # powerStatus
            => <<powerStatus, powerStatus'>> \in
                   {<<"OFF", "BOOTING">>, <<"BOOTING", "ON">>, <<"ON", "OFF">>}
       /\ lastEvent'.op = "HandlePowerOn"
            => powerStatus = "OFF" /\ powerStatus' = "BOOTING"
       /\ (powerStatus # "ON" /\ powerStatus' = "ON")
            => lastEvent'.op = "BootTimerFired"
       /\ lastEvent'.op = "BootTimerFired"
            => powerStatus = "BOOTING" /\ powerStatus' = "ON"
       /\ lastEvent'.op = "HandlePowerOff"
            => powerStatus = "ON" /\ powerStatus' = "OFF"
       /\ lastEvent'.op = "StartRecording" => powerStatus = "ON"]_vars

\* a second boot, after a power-off that followed an interaction
C30_Witness ==
    /\ powerStatus = "BOOTING"
    /\ bootTimer
    /\ interactions > 0
    /\ mode = "OFF"

====
